---------------------------- MODULE Spec2Model ----------------------------
(*
  The typed storage driver of rust-htmx (src/src/db/driver.rs): `Db` wraps an
  embedded ordered byte-keyed store (sled) and a bincode encoder configured
  big-endian.  The model keeps the store as the ordered list of its entries,
  the ID generator as sled's two counters, and every driver method as one
  action that records what the method returned in `ret`.

  Bytes are the integers 0..255, byte strings (keys, encoded values, Rust
  `String`s) are sequences of bytes.  Rust's Option is a sequence of length
  at most one, Result is a record tagged "Ok" or "Err".
*)
EXTENDS Integers, Sequences, FiniteSets

(***************************************************************************)
(* Rust's Option and Result                                                *)
(***************************************************************************)
None == <<>>
Some(v) == <<v>>
Ok(v) == [tag |-> "Ok", val |-> v]
Err(e) == [tag |-> "Err", err |-> e]
Unit == "()"

(***************************************************************************)
(* Byte strings                                                            *)
(***************************************************************************)
\* Drop the first n elements of s.
Skip(s, n) == SubSeq(s, n + 1, Len(s))

\* The first n elements of s.
Take(s, n) == SubSeq(s, 1, n)

\* Byte-lexicographic order of two byte strings, as Ord for [u8] (the order of
\* sled's keys): a proper prefix sorts first.
RECURSIVE LexLess(_, _)
LexLess(a, b) ==
    IF b = <<>> THEN FALSE
    ELSE IF a = <<>> THEN TRUE
    ELSE IF Head(a) < Head(b) THEN TRUE
    ELSE IF Head(a) > Head(b) THEN FALSE
    ELSE LexLess(Tail(a), Tail(b))

\* key starts with the bytes of prefix.
StartsWith(key, prefix) ==
    /\ Len(prefix) <= Len(key)
    /\ Take(key, Len(prefix)) = prefix

IsCont(b) == b >= 128 /\ b <= 191

\* n continuation bytes at the front of s.
AllCont(s, n) == Len(s) >= n /\ \A i \in 1..n : IsCont(s[i])

\* core::str::from_utf8's validity check (String::from_utf8 and the decoding of
\* a String field both run it): well-formed UTF-8, no overlong forms, no
\* surrogates, nothing above U+10FFFF.
RECURSIVE ValidUtf8(_)
ValidUtf8(s) ==
    IF s = <<>> THEN TRUE
    ELSE LET b == Head(s)
             t == Tail(s)
         IN IF b <= 127 THEN ValidUtf8(t)
            ELSE IF b >= 194 /\ b <= 223
                 THEN AllCont(t, 1) /\ ValidUtf8(Skip(t, 1))
            ELSE IF b = 224
                 THEN AllCont(t, 2) /\ t[1] >= 160 /\ ValidUtf8(Skip(t, 2))
            ELSE IF (b >= 225 /\ b <= 236) \/ b = 238 \/ b = 239
                 THEN AllCont(t, 2) /\ ValidUtf8(Skip(t, 2))
            ELSE IF b = 237
                 THEN AllCont(t, 2) /\ t[1] <= 159 /\ ValidUtf8(Skip(t, 2))
            ELSE IF b = 240
                 THEN AllCont(t, 3) /\ t[1] >= 144 /\ ValidUtf8(Skip(t, 3))
            ELSE IF b >= 241 /\ b <= 243
                 THEN AllCont(t, 3) /\ ValidUtf8(Skip(t, 3))
            ELSE IF b = 244
                 THEN AllCont(t, 3) /\ t[1] <= 143 /\ ValidUtf8(Skip(t, 3))
            ELSE FALSE

\* String::from_utf8(key.to_vec()): the same bytes as a String, or an error.
from_utf8(bytes) ==
    IF ValidUtf8(bytes) THEN Ok(bytes) ELSE Err("FromUtf8Error")

(***************************************************************************)
(* The codec: bincode::options().with_big_endian()                         *)
(*   DefaultOptions = variable-length integers, no size limit, trailing    *)
(*   bytes rejected; with_big_endian = multi-byte integers most            *)
(*   significant byte first.                                               *)
(***************************************************************************)
\* The w low bytes of n, most significant first.
RECURSIVE BEBytes(_, _)
BEBytes(n, w) ==
    IF w = 0 THEN <<>> ELSE Append(BEBytes(n \div 256, w - 1), n % 256)

\* The number a big-endian byte string stands for.
RECURSIVE BEValue(_)
BEValue(bytes) ==
    IF bytes = <<>> THEN 0
    ELSE BEValue(Take(bytes, Len(bytes) - 1)) * 256 + bytes[Len(bytes)]

\* The same bytes read least significant first.
RECURSIVE LEValue(_)
LEValue(bytes) ==
    IF bytes = <<>> THEN 0 ELSE Head(bytes) + 256 * LEValue(Tail(bytes))

\* bincode's varint encoding of an unsigned integer: one byte below 251, else a
\* marker byte (251: u16, 252: u32, 253: u64) and the integer in that width.
VarintEncode(n) ==
    IF n < 251 THEN <<n>>
    ELSE IF n < 65536 THEN <<251>> \o BEBytes(n, 2)
    ELSE IF n \div 65536 < 65536 THEN <<252>> \o BEBytes(n, 4)
    ELSE <<253>> \o BEBytes(n, 8)

\* What a read off the front of a byte string gives: the value and the bytes
\* left, or a failure.
Read(v, rest) == [ok |-> TRUE, val |-> v, rest |-> rest]
ReadFail == [ok |-> FALSE, val |-> 0, rest |-> <<>>]

\* w bytes read as a little-endian integer: the decoder of bincode's default
\* byte order.
ReadFixedLE(bytes, w) ==
    IF Len(bytes) < w THEN ReadFail
    ELSE Read(LEValue(Take(bytes, w)), Skip(bytes, w))

\* w bytes read as a big-endian integer.
ReadFixed(bytes, w) ==
    IF Len(bytes) < w THEN ReadFail
    ELSE Read(BEValue(Take(bytes, w)), Skip(bytes, w))

\* bincode's varint decoding of a u64: markers 254 (u128) and 255 (reserved)
\* are errors, a wider form than needed is accepted.
ReadVarint(bytes) ==
    IF bytes = <<>> THEN ReadFail
    ELSE LET b == Head(bytes)
             t == Tail(bytes)
         IN IF b <= 250 THEN Read(b, t)
            ELSE IF b = 251 THEN ReadFixed(t, 2)
            ELSE IF b = 252 THEN ReadFixed(t, 4)
            ELSE IF b = 253 THEN ReadFixed(t, 8)
            ELSE ReadFail

\* A String: its length as a varint, then that many bytes of valid UTF-8.
ReadString(bytes) ==
    LET n == ReadVarint(bytes)
    IN IF ~n.ok \/ Len(n.rest) < n.val THEN ReadFail
       ELSE LET s == Take(n.rest, n.val)
            IN IF ValidUtf8(s) THEN Read(s, Skip(n.rest, n.val)) ELSE ReadFail

\* A bool: one byte, 0 or 1.
ReadBool(bytes) ==
    IF bytes = <<>> \/ Head(bytes) > 1 THEN ReadFail
    ELSE Read(Head(bytes) = 1, Tail(bytes))

(***************************************************************************)
(* The record types the driver is used with                                *)
(***************************************************************************)
\* tests::Test { id: u64, name: String }
Test(id, name) == [ty |-> "Test", id |-> id, name |-> name]

\* models::Todo { id: u64, title: String, completed: bool }
Todo(id, title, completed) ==
    [ty |-> "Todo", id |-> id, title |-> title, completed |-> completed]

\* Todo::new(id, title)
Todo_new(id, title) == Todo(id, title, FALSE)

Types == {"Test", "Todo"}

\* self.encoder.serialize(value): the fields in declaration order.
serialize(value) ==
    IF value.ty = "Test"
    THEN VarintEncode(value.id) \o VarintEncode(Len(value.name)) \o value.name
    ELSE VarintEncode(value.id) \o VarintEncode(Len(value.title)) \o value.title
         \o <<IF value.completed THEN 1 ELSE 0>>

\* self.encoder.deserialize::<T>(bytes): the fields in declaration order, and an
\* error when bytes are left over.
deserialize(T, bytes) ==
    LET id == ReadVarint(bytes)
        text == IF id.ok THEN ReadString(id.rest) ELSE ReadFail
    IN IF ~text.ok THEN Err("DecodeError")
       ELSE IF T = "Test"
            THEN IF text.rest = <<>> THEN Ok(Test(id.val, text.val))
                 ELSE Err("DecodeError")
            ELSE LET flag == ReadBool(text.rest)
                 IN IF flag.ok /\ flag.rest = <<>>
                    THEN Ok(Todo(id.val, text.val, flag.val))
                    ELSE Err("DecodeError")

(***************************************************************************)
(* The store: sled's ordered map, kept as the list of its entries in key   *)
(* order, and its ID generator                                             *)
(***************************************************************************)
Entry(key, value) == [key |-> key, value |-> value]

\* Tree::get
sled_get(t, key) ==
    IF \E i \in 1..Len(t) : t[i].key = key
    THEN Some(t[CHOOSE i \in 1..Len(t) : t[i].key = key].value)
    ELSE None

\* Tree::insert: the entry takes the key's place in the order, replacing the
\* entry that was there.
sled_insert(t, key, value) ==
    SelectSeq(t, LAMBDA e : LexLess(e.key, key))
    \o <<Entry(key, value)>>
    \o SelectSeq(t, LAMBDA e : LexLess(key, e.key))

\* Tree::remove
sled_remove(t, key) == SelectSeq(t, LAMBDA e : e.key # key)

\* Tree::range(lo..hi), or Tree::range(lo..) when the range has no upper end.
sled_range(t, lo, hi) ==
    SelectSeq(t, LAMBDA e : /\ ~LexLess(e.key, lo)
                            /\ (hi # None => LexLess(e.key, hi[1])))

\* The upper end of a prefix's range: the prefix with its trailing 255 bytes
\* dropped and the byte before them raised by one; none when nothing is left.
RECURSIVE PrefixUpper(_)
PrefixUpper(prefix) ==
    IF prefix = <<>> THEN None
    ELSE LET last == prefix[Len(prefix)]
             front == Take(prefix, Len(prefix) - 1)
         IN IF last < 255 THEN Some(Append(front, last + 1))
            ELSE PrefixUpper(front)

\* Tree::scan_prefix
scan_prefix(t, prefix) == sled_range(t, prefix, PrefixUpper(prefix))

\* sled's idgen_persist_interval (1,000,000 in sled's default Config), scaled
\* down: the counter is written to disk each time an ID crosses a multiple of it.
IdgenPersistInterval == 2

\* Db::generate_id: the next ID, and the persisted counter raised to the
\* multiple of the interval that the ID has reached.
generate_id(gen, persists) ==
    LET necessary == (gen \div IdgenPersistInterval) * IdgenPersistInterval
    IN [id |-> gen,
        idgen |-> gen + 1,
        persists |-> IF persists < necessary THEN necessary ELSE persists]

\* The counter a reopened store starts from: the persisted counter plus twice
\* the interval (a store that is created starts from 0).
idgen_recovery(persists, was_recovered) ==
    IF was_recovered THEN persists + 2 * IdgenPersistInterval ELSE 0

(***************************************************************************)
(* What the driver's methods compute                                       *)
(***************************************************************************)
\* A get that hides a decoding failure as an absent key.
get_swallow(t, key, T) ==
    LET value == sled_get(t, key)
    IN IF value = None \/ deserialize(T, value[1]).tag = "Err" THEN Ok(None)
       ELSE Ok(Some(deserialize(T, value[1]).val))

\* Db::get::<T, _>(key)
get_value(t, key, T) ==
    LET value == sled_get(t, key)
    IN IF value = None THEN Ok(None)
       ELSE LET decoded == deserialize(T, value[1])
            IN IF decoded.tag = "Err" THEN decoded ELSE Ok(Some(decoded.val))

\* The closure of Db::iter and Db::iter_prefix: one element of the store's
\* iterator to one element of the driver's.
iter_item(T, e) ==
    LET key == from_utf8(e.key)
        value == deserialize(T, e.value)
    IN IF key.tag = "Err" THEN key
       ELSE IF value.tag = "Err" THEN value
       ELSE Ok(<<key.val, value.val>>)

\* An iterator that ends at the first element that fails.
RECURSIVE iter_until_error(_, _)
iter_until_error(T, entries) ==
    IF entries = <<>> THEN <<>>
    ELSE IF iter_item(T, Head(entries)).tag = "Err"
         THEN <<iter_item(T, Head(entries))>>
         ELSE <<iter_item(T, Head(entries))>> \o iter_until_error(T, Tail(entries))

\* Iterator::map(closure), consumed to its end.
iter_map(T, entries) == [i \in 1..Len(entries) |-> iter_item(T, entries[i])]

(***************************************************************************)
(* The values the operations are tried with                                *)
(***************************************************************************)
\* "test", "test2" and "tesu" (the first key past every key that starts with
\* "test").
KeyTest == <<116, 101, 115, 116>>
KeyTest2 == <<116, 101, 115, 116, 50>>
KeyTesu == <<116, 101, 115, 117>>
Keys == {KeyTest, KeyTest2, KeyTesu}

\* "", "test", "test2"
Prefixes == {<<>>, KeyTest, KeyTest2}

\* An ID of one byte and one that takes the two-byte form; a record of each type.
Values == {Test(0, KeyTest), Test(300, KeyTest2), Todo(1, KeyTest2, TRUE)}

\* The decimal digits of n, as ASCII.
RECURSIVE Decimal(_)
Decimal(n) ==
    IF n < 10 THEN <<48 + n>> ELSE Append(Decimal(n \div 10), 48 + (n % 10))

\* A JSON string's characters as serde_json writes them: a quote and a
\* backslash get a backslash in front (the titles tried hold no control
\* characters, the only other bytes serde_json escapes).
RECURSIVE JsonEscape(_)
JsonEscape(s) ==
    IF s = <<>> THEN <<>>
    ELSE (IF Head(s) \in {34, 92} THEN <<92, Head(s)>> ELSE <<Head(s)>>)
         \o JsonEscape(Tail(s))

\* serde_json::to_string(&todo): {"id":N,"title":"...","completed":false}
to_json(todo) ==
    <<123, 34, 105, 100, 34, 58>> \o Decimal(todo.id)
    \o <<44, 34, 116, 105, 116, 108, 101, 34, 58, 34>> \o JsonEscape(todo.title)
    \o <<34, 44, 34, 99, 111, 109, 112, 108, 101, 116, 101, 100, 34, 58>>
    \o (IF todo.completed THEN <<116, 114, 117, 101>>
        ELSE <<102, 97, 108, 115, 101>>)
    \o <<125>>

\* The bytes lit at the front of a byte string.
ReadLit(bytes, lit) ==
    IF StartsWith(bytes, lit) THEN Read(lit, Skip(bytes, Len(lit)))
    ELSE ReadFail

IsDigit(b) == b >= 48 /\ b <= 57

\* The digits at the front of a byte string, after the number acc read so far.
RECURSIVE ReadDigits(_, _)
ReadDigits(bytes, acc) ==
    IF bytes # <<>> /\ IsDigit(Head(bytes))
    THEN ReadDigits(Tail(bytes), acc * 10 + (Head(bytes) - 48))
    ELSE Read(acc, bytes)

\* A JSON number read as u64: at least one digit.
ReadDecimal(bytes) ==
    IF bytes = <<>> \/ ~IsDigit(Head(bytes)) THEN ReadFail
    ELSE ReadDigits(bytes, 0)

\* The characters of a JSON string up to its closing quote, after the
\* characters acc read so far; of the escapes, those JsonEscape writes.
RECURSIVE ReadJsonChars(_, _)
ReadJsonChars(bytes, acc) ==
    IF bytes = <<>> THEN ReadFail
    ELSE IF Head(bytes) = 34 THEN Read(acc, Tail(bytes))
    ELSE IF Head(bytes) = 92
         THEN IF Len(bytes) >= 2 /\ bytes[2] \in {34, 92}
              THEN ReadJsonChars(Skip(bytes, 2), Append(acc, bytes[2]))
              ELSE ReadFail
    ELSE IF Head(bytes) < 32 THEN ReadFail
    ELSE ReadJsonChars(Tail(bytes), Append(acc, Head(bytes)))

\* A JSON boolean.
ReadJsonBool(bytes) ==
    IF StartsWith(bytes, <<116, 114, 117, 101>>) THEN Read(TRUE, Skip(bytes, 4))
    ELSE IF StartsWith(bytes, <<102, 97, 108, 115, 101>>)
    THEN Read(FALSE, Skip(bytes, 5))
    ELSE ReadFail

\* What a read gave, as a set: its result, or nothing when it failed.
Oks(r) == IF r.ok THEN {r} ELSE {}

\* The fields of a Todo in the text to_string writes: {"id":N then
\* ,"title":"..." then ,"completed":B, each read where the one before ended.
JsonId(bytes) ==
    UNION {Oks(ReadDecimal(l.rest)) :
              l \in Oks(ReadLit(bytes, <<123, 34, 105, 100, 34, 58>>))}

JsonTitle(id) ==
    UNION {Oks(ReadJsonChars(l.rest, <<>>)) :
              l \in Oks(ReadLit(id.rest,
                                <<44, 34, 116, 105, 116, 108, 101, 34, 58, 34>>))}

JsonCompleted(title) ==
    UNION {Oks(ReadJsonBool(l.rest)) :
              l \in Oks(ReadLit(title.rest,
                                <<44, 34, 99, 111, 109, 112, 108, 101, 116, 101,
                                  100, 34, 58>>))}

\* serde_json::from_slice::<Todo>(bytes), for the text to_string writes (the
\* fields in declaration order, no white space): the store of the application
\* shell holds nothing else. The closing brace ends the input.
from_json(bytes) ==
    LET read ==
          UNION {UNION {UNION {
             IF completed.rest = <<125>> /\ ValidUtf8(title.val)
             THEN {Todo(id.val, title.val, completed.val)}
             ELSE {} :
                completed \in JsonCompleted(title)} :
                title \in JsonTitle(id)} :
                id \in JsonId(bytes)}
    IN IF read = {} THEN Err("JsonError") ELSE Ok(CHOOSE todo \in read : TRUE)

\* What the application shell stores in a sled store: the todo's JSON text
\* under the 8 bytes of its id, most significant first.  Todo 128's key is not
\* valid UTF-8.
ForeignTodos == {Todo_new(128, <<>>)}
ForeignKey(todo) == BEBytes(todo.id, 8)
ForeignKeys == {ForeignKey(todo) : todo \in ForeignTodos}

AllKeys == Keys \cup ForeignKeys

(***************************************************************************)
(* Bounds of the model                                                     *)
(***************************************************************************)
\* Spec tries every key, value and prefix above and draws few IDs.
MaxIdsKv == 1
MaxReopensKv == 1

\* SpecIds draws more IDs over more reopenings, with one key in the store.
MaxIds == 3
MaxReopens == 2
KeysIds == {KeyTest}

(***************************************************************************)
(* State                                                                   *)
(***************************************************************************)
VARIABLES
    open,            \* a Db holds the store's handle
    tree,            \* the store's entries, in key order (on disk when closed)
    idgen,           \* the ID generator's counter (in memory)
    idgen_persists,  \* the counter as last written to disk
    reopens,         \* how many times the store was opened again
    ret,             \* the last call and what it returned
    lastOp,          \* per key, the last write to it (history)
    issued,          \* the IDs next_id has returned, in order (history)
    handle,          \* AppState.handle: the entries of the store "todos"
    app_idgen,       \* the ID generator's counter of the store "todos"
    app_persists,    \* that counter as last written to disk
    lock,            \* the RwLock: who holds a guard, who waits, in order
    hs,              \* per handler task, where it is and what it works on
    served,          \* how many requests have arrived
    restarts,        \* how many times the server was started again
    hist             \* what the handlers have done so far (history)

dbVars == <<open, tree, idgen, idgen_persists, reopens, ret, lastOp, issued>>
appVars == <<handle, app_idgen, app_persists, lock, hs, served, restarts, hist>>
vars == <<dbVars, appVars>>

NoOp == [op |-> "none"]
Inserted(value) == [op |-> "insert", value |-> value]
Removed(n) == [op |-> "remove", n |-> n]
Foreign(bytes) == [op |-> "foreign", bytes |-> bytes]

\* The handler tasks that run at the same time, and the titles a request
\* brings (one holds a quote, which JSON escapes).
Handlers == {"h1", "h2"}
Titles == {<<97>>, <<34>>}

\* SpecApp serves this many requests over this many restarts of the server
\* (SpecAppFair, which follows the requests to their end, fewer);
\* the store "todos" it finds at its first start is new, or one of an earlier
\* run whose ID counter was last written as PriorCounter.
MaxRequests == 3
MaxRestarts == 1
MaxRequestsFair == 2
PriorCounter == 250

\* A handler task that serves no request.
Idle == [pc |-> "idle", kind |-> "none", id |-> 0, title |-> <<>>,
         local |-> None, resp |-> <<>>]

\* The RwLock with no guard out and nobody waiting.
Unlocked == [readers |-> {}, writer |-> {}, queue |-> <<>>]

\* AppState::new() and AppStateContainer::new(): sled::open("todos"), on a store
\* that is found (with its persisted ID counter and no todo left) or created.
AppInit(persisted, found) ==
    /\ handle = <<>>
    /\ app_idgen = idgen_recovery(persisted, found)
    /\ app_persists = persisted
    /\ lock = Unlocked
    /\ hs = [h \in Handlers |-> Idle]
    /\ served = 0
    /\ restarts = 0
    /\ hist = [allocated |-> <<>>, created |-> {}, removed |-> {},
               flipped |-> {}, panicked |-> FALSE]

\* Db::new_with_path(path) on a path that holds no store yet, as tests::setup
\* does.
Init ==
    /\ open = TRUE
    /\ tree = <<>>
    /\ idgen = idgen_recovery(0, FALSE)
    /\ idgen_persists = 0
    /\ reopens = 0
    /\ ret = [op |-> "new_with_path", result |-> Ok(Unit)]
    /\ lastOp = [k \in AllKeys |-> NoOp]
    /\ issued = <<>>
    /\ AppInit(0, FALSE)

(***************************************************************************)
(* The driver's methods                                                    *)
(***************************************************************************)
\* A new_with_path that opens a store of its own instead of the one at path.
new_with_path_fresh ==
    /\ ~open
    /\ open' = TRUE
    /\ reopens' = reopens + 1
    /\ tree' = <<>>
    /\ idgen' = 0
    /\ idgen_persists' = 0
    /\ ret' = [op |-> "new_with_path", result |-> Ok(Unit)]
    /\ UNCHANGED <<lastOp, issued>>
    /\ UNCHANGED appVars

\* Db::new_with_path(path) on the path of a store that was closed: sled
\* recovers the entries and the persisted counter.
new_with_path ==
    /\ ~open
    /\ open' = TRUE
    /\ reopens' = reopens + 1
    /\ idgen' = idgen_recovery(idgen_persists, TRUE)
    /\ ret' = [op |-> "new_with_path", result |-> Ok(Unit)]
    /\ UNCHANGED <<tree, idgen_persists, lastOp, issued>>
    /\ UNCHANGED appVars

\* drop(db): sled flushes what is not yet on disk and releases the path.
drop_db ==
    /\ open
    /\ open' = FALSE
    /\ idgen' = 0
    /\ ret' = [op |-> "drop"]
    /\ UNCHANGED <<tree, idgen_persists, reopens, lastOp, issued>>
    /\ UNCHANGED appVars

\* A next_id that reads the counter and leaves it where it is.
next_id_peek ==
    /\ open
    /\ ret' = [op |-> "next_id", result |-> Ok(idgen)]
    /\ issued' = Append(issued, [id |-> idgen, epoch |-> reopens])
    /\ UNCHANGED <<open, tree, idgen, idgen_persists, reopens, lastOp>>
    /\ UNCHANGED appVars

\* Db::next_id
next_id ==
    /\ open
    /\ LET g == generate_id(idgen, idgen_persists)
       IN /\ idgen' = g.idgen
          /\ idgen_persists' = g.persists
          /\ ret' = [op |-> "next_id", result |-> Ok(g.id)]
          /\ issued' = Append(issued, [id |-> g.id, epoch |-> reopens])
    /\ UNCHANGED <<open, tree, reopens, lastOp>>
    /\ UNCHANGED appVars

\* An insert that draws an ID on its way.
insert_counting(key, value) ==
    /\ open
    /\ tree' = sled_insert(tree, key, serialize(value))
    /\ idgen' = idgen + 1
    /\ ret' = [op |-> "insert", key |-> key, value |-> value,
               result |-> Ok(Unit)]
    /\ lastOp' = [lastOp EXCEPT ![key] = Inserted(value)]
    /\ UNCHANGED <<open, idgen_persists, reopens, issued>>
    /\ UNCHANGED appVars

\* An insert that keeps the value a key already has.
insert_if_absent(key, value) ==
    /\ open
    /\ tree' = IF sled_get(tree, key) = None
               THEN sled_insert(tree, key, serialize(value))
               ELSE tree
    /\ ret' = [op |-> "insert", key |-> key, value |-> value,
               old |-> sled_get(tree, key), result |-> Ok(Unit)]
    /\ lastOp' = [lastOp EXCEPT ![key] = Inserted(value)]
    /\ UNCHANGED <<open, idgen, idgen_persists, reopens, issued>>
    /\ UNCHANGED appVars

\* Db::insert(key, &value).  `old` is what sled's insert returns and the
\* driver drops: the bytes the key held before.
insert(key, value) ==
    /\ open
    /\ tree' = sled_insert(tree, key, serialize(value))
    /\ ret' = [op |-> "insert", key |-> key, value |-> value,
               old |-> sled_get(tree, key), result |-> Ok(Unit)]
    /\ lastOp' = [lastOp EXCEPT ![key] = Inserted(value)]
    /\ UNCHANGED <<open, idgen, idgen_persists, reopens, issued>>
    /\ UNCHANGED appVars

\* Db::get::<T, _>(key)
get(key, T) ==
    /\ open
    /\ ret' = [op |-> "get", key |-> key, ty |-> T,
               result |-> get_value(tree, key, T)]
    /\ UNCHANGED <<open, tree, idgen, idgen_persists, reopens, lastOp, issued>>
    /\ UNCHANGED appVars

\* A remove that reports a key it did not find.
remove_strict(key) ==
    /\ open
    /\ tree' = sled_remove(tree, key)
    /\ ret' = [op |-> "remove", key |-> key,
               result |-> IF sled_get(tree, key) = None THEN Err("NotFound")
                          ELSE Ok(Unit)]
    /\ lastOp' = [lastOp EXCEPT
                    ![key] = Removed(IF lastOp[key].op = "remove" THEN 2 ELSE 1)]
    /\ UNCHANGED <<open, idgen, idgen_persists, reopens, issued>>
    /\ UNCHANGED appVars

\* A remove that takes every key that starts with the key along.
remove_prefix(key) ==
    /\ open
    /\ tree' = SelectSeq(tree, LAMBDA e : ~StartsWith(e.key, key))
    /\ ret' = [op |-> "remove", key |-> key, result |-> Ok(Unit)]
    /\ lastOp' = [lastOp EXCEPT
                    ![key] = Removed(IF lastOp[key].op = "remove" THEN 2 ELSE 1)]
    /\ UNCHANGED <<open, idgen, idgen_persists, reopens, issued>>
    /\ UNCHANGED appVars

\* Db::remove(key)
remove(key) ==
    /\ open
    /\ tree' = sled_remove(tree, key)
    /\ ret' = [op |-> "remove", key |-> key, result |-> Ok(Unit)]
    /\ lastOp' = [lastOp EXCEPT
                    ![key] = Removed(IF lastOp[key].op = "remove" THEN 2 ELSE 1)]
    /\ UNCHANGED <<open, idgen, idgen_persists, reopens, issued>>
    /\ UNCHANGED appVars

\* The elements of a sequence, last first.
Reverse(q) == [i \in 1..Len(q) |-> q[Len(q) + 1 - i]]

\* An iter that walks the store from its last key.
iter_rev(T) ==
    /\ open
    /\ ret' = [op |-> "iter", ty |-> T,
               result |-> Ok(iter_map(T, Reverse(tree)))]
    /\ UNCHANGED <<open, tree, idgen, idgen_persists, reopens, lastOp, issued>>
    /\ UNCHANGED appVars

\* Db::iter::<T>(), consumed to its end.
iter(T) ==
    /\ open
    /\ ret' = [op |-> "iter", ty |-> T, result |-> Ok(iter_map(T, tree))]
    /\ UNCHANGED <<open, tree, idgen, idgen_persists, reopens, lastOp, issued>>
    /\ UNCHANGED appVars

\* An iter_prefix that scans from the prefix to the end of the store.
iter_prefix_from(prefix, T) ==
    /\ open
    /\ ret' = [op |-> "iter_prefix", prefix |-> prefix, ty |-> T,
               result |-> Ok(iter_map(T, sled_range(tree, prefix, None)))]
    /\ UNCHANGED <<open, tree, idgen, idgen_persists, reopens, lastOp, issued>>
    /\ UNCHANGED appVars

\* Db::iter_prefix::<T>(prefix), consumed to its end.
iter_prefix(prefix, T) ==
    /\ open
    /\ ret' = [op |-> "iter_prefix", prefix |-> prefix, ty |-> T,
               result |-> Ok(iter_map(T, scan_prefix(tree, prefix)))]
    /\ UNCHANGED <<open, tree, idgen, idgen_persists, reopens, lastOp, issued>>
    /\ UNCHANGED appVars

\* While no Db holds the path, the application shell's way of writing to a
\* sled store, applied to this one: AppState::add's insert of a todo's JSON
\* under its id's bytes.
foreign_write(todo) ==
    /\ ~open
    /\ tree' = sled_insert(tree, ForeignKey(todo), to_json(todo))
    /\ ret' = [op |-> "foreign_write"]
    /\ lastOp' = [lastOp EXCEPT ![ForeignKey(todo)] = Foreign(to_json(todo))]
    /\ UNCHANGED <<open, idgen, idgen_persists, reopens, issued>>
    /\ UNCHANGED appVars

\* The store with every key, value and prefix.
Next ==
    \/ (reopens < MaxReopensKv /\ new_with_path)
    \/ drop_db
    \/ (Len(issued) < MaxIdsKv /\ next_id)
    \/ \E key \in Keys, value \in Values : insert(key, value)
    \/ \E key \in Keys, T \in Types : get(key, T)
    \/ \E key \in Keys : remove(key)
    \/ \E T \in Types : iter(T)
    \/ \E prefix \in Prefixes, T \in Types : iter_prefix(prefix, T)
    \/ \E todo \in ForeignTodos : foreign_write(todo)

Spec == Init /\ [][Next]_vars

\* The ID generator over several reopenings, the other methods in between.
NextIds ==
    \/ (reopens < MaxReopens /\ new_with_path)
    \/ drop_db
    \/ (Len(issued) < MaxIds /\ next_id)
    \/ \E key \in KeysIds, value \in Values : insert(key, value)
    \/ \E key \in KeysIds, T \in Types : get(key, T)
    \/ \E key \in KeysIds : remove(key)
    \/ \E T \in Types : iter(T)
    \/ \E prefix \in KeysIds, T \in Types : iter_prefix(prefix, T)
    \/ \E todo \in ForeignTodos : foreign_write(todo)

SpecIds == Init /\ [][NextIds]_vars

(***************************************************************************)
(* What the history says the store holds                                   *)
(***************************************************************************)
\* The keys that were written and not removed since.
Present == {k \in AllKeys : lastOp[k].op \in {"insert", "foreign"}}

\* The bytes the last write to a present key handed to the store.
StoredBytes(k) ==
    IF lastOp[k].op = "insert" THEN serialize(lastOp[k].value)
    ELSE lastOp[k].bytes

\* The place of key k among the keys S in byte-lexicographic order.
Rank(k, S) == 1 + Cardinality({j \in S : LexLess(j, k)})

\* Key k was last written by insert(k, v) with v of type T.
InsertedAs(k, T) == lastOp[k].op = "insert" /\ lastOp[k].value.ty = T

(***************************************************************************)
(* Claims                                                                  *)
(***************************************************************************)
\* C1: a get(k) as the type of v, issued after insert(k, v) with no insert or
\* remove of k in between, returns Some of a value equal to v in every field,
\* whatever else was done to the store.
C1_RoundTrip ==
    (ret.op = "get" /\ InsertedAs(ret.key, ret.ty))
        => ret.result = Ok(Some(lastOp[ret.key].value))

\* A get that returned the record whose id takes the two-byte form.
C1_Witness ==
    /\ ret.op = "get"
    /\ lastOp[ret.key] = Inserted(Test(300, KeyTest2))
    /\ ret.result = Ok(Some(Test(300, KeyTest2)))

\* C2: insert(k, v2) succeeds whatever k held before; straight after it the
\* store holds exactly one entry for k, its bytes are those of v2 alone, and
\* get(k) gives v2 in full.
C2_LastWriteWins ==
    ret.op = "insert" =>
        /\ ret.result = Ok(Unit)
        /\ Cardinality({i \in 1..Len(tree) : tree[i].key = ret.key}) = 1
        /\ sled_get(tree, ret.key) = Some(serialize(ret.value))
        /\ get_value(tree, ret.key, ret.value.ty) = Ok(Some(ret.value))

\* An insert over a different value of the same key.
C2_Witness ==
    /\ ret.op = "insert"
    /\ ret.old = Some(serialize(Test(0, KeyTest)))
    /\ ret.value = Test(300, KeyTest2)

\* C3: remove(k) returns Ok whether k was present or not and leaves no entry
\* for k; a get(k) issued after it, with no insert of k in between, returns
\* None.
C3_RemoveThenGet ==
    /\ ret.op = "remove" =>
          (ret.result = Ok(Unit) /\ sled_get(tree, ret.key) = None)
    /\ (ret.op = "get" /\ lastOp[ret.key].op = "remove")
          => ret.result = Ok(None)

\* A get of a key that was removed twice in a row: the second remove found no
\* entry.
C3_Witness ==
    /\ ret.op = "get"
    /\ lastOp[ret.key] = Removed(2)
    /\ ret.result = Ok(None)

\* C4: the first ID drawn from a store that was just created is 0, and the
\* IDs drawn through one handle are strictly increasing in the order of the
\* calls, whatever other methods run in between; next_id returns the ID it drew.
C4_NextIdIncreasing ==
    /\ (issued # <<>> /\ issued[1].epoch = 0) => issued[1].id = 0
    /\ \A i, j \in 1..Len(issued) :
          (i < j /\ issued[i].epoch = issued[j].epoch)
              => issued[i].id < issued[j].id
    /\ ret.op = "next_id" => ret.result = Ok(issued[Len(issued)].id)

\* Three IDs drawn from the store as created, a record inserted in between.
C4_Witness ==
    /\ Len(issued) = 3
    /\ \A i \in 1..3 : issued[i].epoch = 0
    /\ ret.op = "next_id"
    /\ lastOp[KeyTest].op = "insert"

\* C5: iter::<T>(), consumed to its end, yields one element per entry of the
\* store, the element of the entry at the n-th smallest key in n-th place; for
\* an entry last written by insert(k, v) with v of type T the element is
\* (k, v).  Keys come in ascending byte-lexicographic order, "test" before
\* "test2".
C5_IterAllInOrder ==
    ret.op = "iter" =>
        LET r == ret.result.val
        IN /\ ret.result.tag = "Ok"
           /\ Len(r) = Cardinality(Present)
           /\ \A k \in Present :
                 InsertedAs(k, ret.ty)
                     => r[Rank(k, Present)] = Ok(<<k, lastOp[k].value>>)
           /\ \A i, j \in 1..Len(r) :
                 (i < j /\ r[i].tag = "Ok" /\ r[j].tag = "Ok")
                     => LexLess(r[i].val[1], r[j].val[1])
           /\ (InsertedAs(KeyTest, ret.ty) /\ InsertedAs(KeyTest2, ret.ty))
                 => Rank(KeyTest, Present) < Rank(KeyTest2, Present)

\* The store of tests::test_iter ("test" and "test2", a Test at each) walked as
\* Test.
C5_Witness ==
    /\ ret.op = "iter"
    /\ ret.result = Ok(<<Ok(<<KeyTest, Test(0, KeyTest)>>),
                         Ok(<<KeyTest2, Test(300, KeyTest2)>>)>>)

\* C6: iter_prefix::<T>(p), consumed to its end, yields one element per entry
\* whose key starts with p and none for any other entry, in ascending
\* byte-lexicographic key order; for an entry last written by insert(k, v) with
\* v of type T the element is (k, v).
C6_IterPrefix ==
    ret.op = "iter_prefix" =>
        LET r == ret.result.val
            S == {k \in Present : StartsWith(k, ret.prefix)}
        IN /\ ret.result.tag = "Ok"
           /\ Len(r) = Cardinality(S)
           /\ \A k \in S :
                 InsertedAs(k, ret.ty)
                     => r[Rank(k, S)] = Ok(<<k, lastOp[k].value>>)
           /\ \A i \in 1..Len(r) :
                 r[i].tag = "Ok" => StartsWith(r[i].val[1], ret.prefix)
           /\ \A i, j \in 1..Len(r) :
                 (i < j /\ r[i].tag = "Ok" /\ r[j].tag = "Ok")
                     => LexLess(r[i].val[1], r[j].val[1])

\* With "test", "test2" and "tesu" in the store, iter_prefix("test") gave
\* "test" and "test2" and stopped before "tesu".
C6_Witness ==
    /\ ret.op = "iter_prefix"
    /\ ret.prefix = KeyTest
    /\ lastOp[KeyTesu].op = "insert"
    /\ ret.result = Ok(<<Ok(<<KeyTest, Test(0, KeyTest)>>),
                         Ok(<<KeyTest2, Test(300, KeyTest2)>>)>>)

\* C7: straight after the store is closed and opened again at its path, every
\* key whose last write was insert(k, v) gives v to get(k), and every ID drawn
\* after a reopening is greater than every ID drawn before it.
C7_Restart ==
    /\ (ret.op = "new_with_path" /\ reopens > 0) =>
          \A k \in Keys :
              lastOp[k].op = "insert"
                  => get_value(tree, k, lastOp[k].value.ty)
                         = Ok(Some(lastOp[k].value))
    /\ \A i, j \in 1..Len(issued) :
          issued[i].epoch < issued[j].epoch => issued[i].id < issued[j].id

\* The store opened for the third time, holding a record, IDs drawn both from
\* the store as created and after its first reopening.
C7_Witness ==
    /\ ret.op = "new_with_path"
    /\ reopens = 2
    /\ \E k \in Keys : lastOp[k].op = "insert"
    /\ \E i, j \in 1..Len(issued) : issued[i].epoch = 0 /\ issued[j].epoch = 1

\* C8: every remove returns Ok, and a remove(k) that follows a remove(k), with
\* no insert of k in between, changes neither the entries nor the ID counter.
C8_RemoveIdempotent ==
    /\ [](ret.op = "remove" => ret.result = Ok(Unit))
    /\ [][\A k \in Keys :
            (lastOp[k].op = "remove" /\ ret'.op = "remove" /\ ret'.key = k)
                => /\ ret'.result = Ok(Unit)
                   /\ tree' = tree
                   /\ idgen' = idgen
                   /\ idgen_persists' = idgen_persists]_vars

\* A key removed twice in a row while another key held a record.
C8_Witness ==
    /\ ret.op = "remove"
    /\ lastOp[ret.key] = Removed(2)
    /\ \E k \in Keys : lastOp[k].op = "insert"

\* C9: in iter and iter_prefix every entry in range has its own element, in
\* key order: an error when the entry's key is not valid UTF-8 or its bytes do
\* not decode as T, else the key and the decoded value.  An error ends
\* nothing: the entries after it have their elements as well.
C9_IterErrorPerElement ==
    ret.op \in {"iter", "iter_prefix"} =>
        LET r == ret.result.val
            S == IF ret.op = "iter" THEN Present
                 ELSE {k \in Present : StartsWith(k, ret.prefix)}
        IN /\ Len(r) = Cardinality(S)
           /\ \A k \in S :
                 LET decoded == deserialize(ret.ty, StoredBytes(k))
                 IN IF ~ValidUtf8(k) \/ decoded.tag = "Err"
                    THEN r[Rank(k, S)].tag = "Err"
                    ELSE r[Rank(k, S)] = Ok(<<k, decoded.val>>)

\* An iteration whose first element is the error of a key that is not UTF-8,
\* with an error of a value of another type and a decoded record after it.
C9_Witness ==
    /\ ret.op = "iter"
    /\ Len(ret.result.val) = 3
    /\ ret.result.val[1] = Err("FromUtf8Error")
    /\ ret.result.val[2] = Err("DecodeError")
    /\ ret.result.val[3].tag = "Ok"

\* C10: a get(k) as T of bytes that do not decode as T returns an error, not
\* None and not a value, and changes neither the entries nor the ID counter.
C10_GetDecodeError ==
    /\ []((/\ ret.op = "get"
           /\ lastOp[ret.key].op = "insert"
           /\ deserialize(ret.ty, StoredBytes(ret.key)).tag = "Err")
              => ret.result = Err("DecodeError"))
    /\ [][(ret'.op = "get" /\ ret'.result.tag = "Err")
            => /\ tree' = tree
               /\ idgen' = idgen
               /\ idgen_persists' = idgen_persists]_vars

\* A get as Test of a key that holds a Todo.
C10_Witness ==
    /\ ret.op = "get"
    /\ ret.ty = "Test"
    /\ lastOp[ret.key] = Inserted(Todo(1, KeyTest2, TRUE))
    /\ ret.result = Err("DecodeError")

(***************************************************************************)
(* The application shell: what AppState's methods compute                  *)
(***************************************************************************)
Panic == Err("panic")

\* A key of the bytes of id, least significant byte first.
to_le_bytes(id) == [i \in 1..8 |-> BEBytes(id, 8)[9 - i]]

\* u64::to_be_bytes
to_be_bytes(id) == BEBytes(id, 8)

\* An ID that leaves the counter where it was.
next_id_stale(gen, persists) ==
    [id |-> gen, idgen |-> gen, persists |-> persists]

\* AppState::next_id: self.handle.generate_id().unwrap()
AppState_next_id(gen, persists) == generate_id(gen, persists)

\* AppState::add after next_id: the new todo stored as JSON under its ID.
AppState_add(t, id, title) ==
    sled_insert(t, to_be_bytes(id), to_json(Todo(id, title, FALSE)))

\* AppState::iter, collected: every stored value decoded, in key order; a
\* value that is no Todo panics.
AppState_iter(t) ==
    IF \E i \in 1..Len(t) : from_json(t[i].value).tag = "Err" THEN Panic
    ELSE Ok([i \in 1..Len(t) |-> from_json(t[i].value).val])

\* A toggle that marks the todo completed whatever it was.
toggle_set(todo) == Todo(todo.id, todo.title, TRUE)

\* todo.completed = !todo.completed
toggle_flip(todo) == Todo(todo.id, todo.title, ~todo.completed)

\* A toggle that starts from a new, empty todo when none is stored.
toggle_read_or_default(t, id) ==
    LET found == sled_get(t, to_be_bytes(id))
    IN IF found = None THEN Ok(toggle_flip(Todo(id, <<>>, FALSE)))
       ELSE LET todo == from_json(found[1])
            IN IF todo.tag = "Err" THEN Panic ELSE Ok(toggle_flip(todo.val))

\* AppState::toggle up to its write: get(id_bytes).unwrap().unwrap() panics
\* when no todo is stored, from_slice(..).unwrap() when the value is no Todo.
toggle_read(t, id) ==
    LET found == sled_get(t, to_be_bytes(id))
    IN IF found = None THEN Panic
       ELSE LET todo == from_json(found[1])
            IN IF todo.tag = "Err" THEN Panic ELSE Ok(toggle_flip(todo.val))

\* AppState::toggle's write: the changed todo stored under the key it was
\* read from.
toggle_write(t, id, todo) == sled_insert(t, to_be_bytes(id), to_json(todo))

\* AppState::toggle as a whole, on a store nobody else touches meanwhile.
AppState_toggle(t, id) ==
    LET todo == toggle_read(t, id)
    IN IF todo.tag = "Err" THEN Panic ELSE Ok(toggle_write(t, id, todo.val))

\* AppState::remove
AppState_remove(t, id) == sled_remove(t, to_be_bytes(id))

\* A create_todo that answers with the first todo of the list.
rendered_first(kind, id, t) ==
    LET all == AppState_iter(t)
    IN IF all.tag = "Err" \/ all.val = <<>> THEN Panic
       ELSE Ok(<<all.val[1]>>)

\* What a handler puts in its response: todos and root every todo,
\* create_todo todos.last().unwrap(), toggle_todo the todo found by its ID
\* (unwrap), remove_todo nothing.
rendered(kind, id, t) ==
    LET all == AppState_iter(t)
    IN IF kind = "remove_todo" THEN Ok(<<>>)
       ELSE IF all.tag = "Err" THEN Panic
       ELSE IF kind \in {"todos", "root"} THEN all
       ELSE IF kind = "create_todo"
            THEN IF all.val = <<>> THEN Panic
                 ELSE Ok(<<all.val[Len(all.val)]>>)
       ELSE LET found == SelectSeq(all.val, LAMBDA todo : todo.id = id)
            IN IF found = <<>> THEN Panic ELSE Ok(<<found[1]>>)

(***************************************************************************)
(* The lock around AppState                                                *)
(***************************************************************************)
\* The guard a handler asks for: todos (and root through it) state.read(),
\* the others state.write().
guard_of(kind) == IF kind \in {"todos", "root"} THEN "read" ELSE "write"

\* A lock whose write guard does not wait for the read guards.
can_acquire_over_readers(guard, l) == l.writer = {}

\* A lock that hands out write guards side by side.
can_acquire_shared(guard, l) ==
    IF guard = "read" THEN l.writer = {} ELSE l.readers = {}

\* RwLock::read / RwLock::write: a read guard next to read guards only, a
\* write guard next to none.
can_acquire(guard, l) ==
    IF guard = "read" THEN l.writer = {}
    ELSE l.writer = {} /\ l.readers = {}

Holders(l) == l.readers \cup l.writer

(***************************************************************************)
(* The handlers, step by step                                              *)
(***************************************************************************)
Set(h, rec) == hs' = [hs EXCEPT ![h] = rec]

\* A request arrives: the handler task calls state.read().await or
\* state.write().await and waits in the lock's queue.
request(h, kind, id, title) ==
    /\ hs[h].pc = "idle"
    /\ Set(h, [Idle EXCEPT !.pc = "wait", !.kind = kind, !.id = id,
                           !.title = title])
    /\ lock' = [lock EXCEPT !.queue = Append(@, h)]
    /\ served' = served + 1
    /\ UNCHANGED <<handle, app_idgen, app_persists, restarts, hist>>
    /\ UNCHANGED dbVars

todos(h) == request(h, "todos", 0, <<>>)

root(h) == request(h, "root", 0, <<>>)

create_todo(h, title) == request(h, "create_todo", 0, title)

toggle_todo(h, id) == request(h, "toggle_todo", id, <<>>)

remove_todo(h, id) == request(h, "remove_todo", id, <<>>)

\* AppStateContainer::read / write returns the guard: to the task that waited
\* longest, once the guards that are out allow it.
acquire(h) ==
    /\ hs[h].pc = "wait"
    /\ lock.queue # <<>> /\ Head(lock.queue) = h
    /\ can_acquire(guard_of(hs[h].kind), lock)
    /\ lock' = IF guard_of(hs[h].kind) = "read"
               THEN [lock EXCEPT !.queue = Tail(@), !.readers = @ \cup {h}]
               ELSE [lock EXCEPT !.queue = Tail(@), !.writer = @ \cup {h}]
    /\ Set(h, [hs[h] EXCEPT !.pc = "held"])
    /\ UNCHANGED <<handle, app_idgen, app_persists, served, restarts, hist>>
    /\ UNCHANGED dbVars

\* create_todo: app_state.add(title), its call of next_id.
add_next_id(h) ==
    /\ hs[h].pc = "held" /\ hs[h].kind = "create_todo"
    /\ \E g \in {AppState_next_id(app_idgen, app_persists)} :
          /\ app_idgen' = g.idgen
          /\ app_persists' = g.persists
          /\ Set(h, [hs[h] EXCEPT !.pc = "allocated", !.id = g.id])
          /\ hist' = [hist EXCEPT !.allocated = Append(@, g.id)]
    /\ UNCHANGED <<handle, lock, served, restarts>>
    /\ UNCHANGED dbVars

\* create_todo: app_state.add(title), its insert.
add_insert(h) ==
    /\ hs[h].pc = "allocated"
    /\ handle' = AppState_add(handle, hs[h].id, hs[h].title)
    /\ Set(h, [hs[h] EXCEPT !.pc = "stored"])
    /\ hist' = [hist EXCEPT !.created = @ \cup {hs[h].id}]
    /\ UNCHANGED <<app_idgen, app_persists, lock, served, restarts>>
    /\ UNCHANGED dbVars

\* toggle_todo: app_state.toggle(id) up to its write; a panic unwinds the
\* handler.
toggle_get(h) ==
    /\ hs[h].pc = "held" /\ hs[h].kind = "toggle_todo"
    /\ \E todo \in {toggle_read(handle, hs[h].id)} :
          IF todo.tag = "Err"
          THEN Set(h, [hs[h] EXCEPT !.pc = "unwinding"])
          ELSE Set(h, [hs[h] EXCEPT !.pc = "read", !.local = Some(todo.val)])
    /\ UNCHANGED <<handle, app_idgen, app_persists, lock, served, restarts, hist>>
    /\ UNCHANGED dbVars

\* toggle_todo: app_state.toggle(id), its insert.
toggle_insert(h) ==
    /\ hs[h].pc = "read"
    /\ handle' = toggle_write(handle, hs[h].id, hs[h].local[1])
    /\ Set(h, [hs[h] EXCEPT !.pc = "stored", !.local = None])
    /\ hist' = [hist EXCEPT !.flipped = IF hs[h].id \in @ THEN @ \ {hs[h].id}
                                        ELSE @ \cup {hs[h].id}]
    /\ UNCHANGED <<app_idgen, app_persists, lock, served, restarts>>
    /\ UNCHANGED dbVars

\* remove_todo: app_state.remove(id).
remove_id(h) ==
    /\ hs[h].pc = "held" /\ hs[h].kind = "remove_todo"
    /\ handle' = AppState_remove(handle, hs[h].id)
    /\ Set(h, [hs[h] EXCEPT !.pc = "stored"])
    /\ hist' = [hist EXCEPT !.removed = @ \cup {hs[h].id}]
    /\ UNCHANGED <<app_idgen, app_persists, lock, served, restarts>>
    /\ UNCHANGED dbVars

\* The handler reads the list and builds its response; an unwrap that fails
\* unwinds it.
render(h) ==
    /\ \/ hs[h].pc = "stored"
       \/ hs[h].pc = "held" /\ hs[h].kind \in {"todos", "root"}
    /\ \E r \in {rendered(hs[h].kind, hs[h].id, handle)} :
          IF r.tag = "Err"
          THEN Set(h, [hs[h] EXCEPT !.pc = "unwinding"])
          ELSE Set(h, [hs[h] EXCEPT !.pc = "rendered", !.resp = r.val])
    /\ UNCHANGED <<handle, app_idgen, app_persists, lock, served, restarts, hist>>
    /\ UNCHANGED dbVars

\* A handler that keeps its guard when it unwinds.
guard_drop_on_return(h) ==
    /\ hs[h].pc \in {"rendered", "unwinding"}
    /\ lock' = IF hs[h].pc = "rendered"
               THEN [lock EXCEPT !.readers = @ \ {h}, !.writer = @ \ {h}]
               ELSE lock
    /\ Set(h, Idle)
    /\ hist' = [hist EXCEPT !.panicked = @ \/ hs[h].pc = "unwinding"]
    /\ UNCHANGED <<handle, app_idgen, app_persists, served, restarts>>
    /\ UNCHANGED dbVars

\* The handler ends, by return or by unwinding: its guard goes out of scope
\* and gives the lock back.
guard_drop(h) ==
    /\ hs[h].pc \in {"rendered", "unwinding"}
    /\ lock' = [lock EXCEPT !.readers = @ \ {h}, !.writer = @ \ {h}]
    /\ Set(h, Idle)
    /\ hist' = [hist EXCEPT !.panicked = @ \/ hs[h].pc = "unwinding"]
    /\ UNCHANGED <<handle, app_idgen, app_persists, served, restarts>>
    /\ UNCHANGED dbVars

\* The server process ends, whatever its handlers were doing, and main starts
\* again: AppState::new() opens the store "todos" it left.
restart ==
    /\ handle' = handle
    /\ app_idgen' = idgen_recovery(app_persists, TRUE)
    /\ lock' = Unlocked
    /\ hs' = [h \in Handlers |-> Idle]
    /\ restarts' = restarts + 1
    /\ UNCHANGED <<app_persists, served, hist>>
    /\ UNCHANGED dbVars

\* The IDs a request may name: those given out so far and the next one, which
\* no todo has yet.
RequestIds == {hist.allocated[i] : i \in 1..Len(hist.allocated)} \cup {app_idgen}

\* What one handler task does next once its request is in.
step(h) ==
    \/ acquire(h)
    \/ add_next_id(h)
    \/ add_insert(h)
    \/ toggle_get(h)
    \/ toggle_insert(h)
    \/ remove_id(h)
    \/ render(h)
    \/ guard_drop(h)

NextApp ==
    \/ \E h \in Handlers : (served < MaxRequests /\ todos(h))
    \/ \E h \in Handlers : (served < MaxRequests /\ root(h))
    \/ \E h \in Handlers, title \in Titles :
          (served < MaxRequests /\ create_todo(h, title))
    \/ \E h \in Handlers, id \in RequestIds :
          (served < MaxRequests /\ toggle_todo(h, id))
    \/ \E h \in Handlers, id \in RequestIds :
          (served < MaxRequests /\ remove_todo(h, id))
    \/ \E h \in Handlers : step(h)
    \/ (restarts < MaxRestarts /\ restart)

\* The first start finds no store or the one of an earlier run.
InitApp ==
    /\ open = TRUE
    /\ tree = <<>>
    /\ idgen = idgen_recovery(0, FALSE)
    /\ idgen_persists = 0
    /\ reopens = 0
    /\ ret = [op |-> "new_with_path", result |-> Ok(Unit)]
    /\ lastOp = [k \in AllKeys |-> NoOp]
    /\ issued = <<>>
    /\ \/ AppInit(0, FALSE)
       \/ AppInit(PriorCounter, TRUE)

SpecApp == InitApp /\ [][NextApp]_vars

\* The same server with fewer requests, each followed to its end while the
\* process runs on.
NextAppFair ==
    \/ \E h \in Handlers : (served < MaxRequestsFair /\ todos(h))
    \/ \E h \in Handlers : (served < MaxRequestsFair /\ root(h))
    \/ \E h \in Handlers, title \in Titles :
          (served < MaxRequestsFair /\ create_todo(h, title))
    \/ \E h \in Handlers, id \in RequestIds :
          (served < MaxRequestsFair /\ toggle_todo(h, id))
    \/ \E h \in Handlers, id \in RequestIds :
          (served < MaxRequestsFair /\ remove_todo(h, id))
    \/ \E h \in Handlers : step(h)

\* The runtime polls every task that can go on, and the lock serves the tasks
\* that wait in the order they came: no handler stands still for ever while it
\* has a step to take.
SpecAppFair ==
    /\ InitApp
    /\ [][NextAppFair]_vars
    /\ \A h \in Handlers : WF_vars(step(h))

(***************************************************************************)
(* Claims about the application shell                                      *)
(***************************************************************************)
\* Where a handler is between getting its guard and giving it back.
InSection == {"held", "allocated", "read", "stored", "rendered", "unwinding"}

Reading(h) == hs[h].pc \in InSection /\ guard_of(hs[h].kind) = "read"
Writing(h) == hs[h].pc \in InSection /\ guard_of(hs[h].kind) = "write"

C12_LockReleasedAndAcquired ==
    /\ \A h \in Handlers :
          (h \in Holders(lock)) ~> (h \notin Holders(lock))
    /\ \A h \in Handlers :
          (hs[h].pc = "wait") ~> (h \in Holders(lock))

\* A handler waits for the lock while the holder of the write guard unwinds
\* from a panic.
C12_Witness ==
    \E w \in Handlers :
       /\ hs[w].pc = "unwinding" /\ w \in lock.writer
       /\ \E h \in Handlers \ {w} : hs[h].pc = "wait"

\* The IDs that have a todo in the store, and the todo stored under an ID.
StoredIds == {BEValue(handle[i].key) : i \in 1..Len(handle)}
StoredTodo(id) == from_json(sled_get(handle, to_be_bytes(id))[1]).val

\* C13: the IDs that the adds of create_todo requests allocate are pairwise
\* distinct, whatever the interleaving of the requests; no add writes over a
\* todo already stored; and while nothing was removed the store holds exactly
\* the todos of the completed adds, one per ID.
C13_UniqueIds ==
    /\ [](\A i, j \in 1..Len(hist.allocated) :
             i # j => hist.allocated[i] # hist.allocated[j])
    /\ [](hist.removed = {} =>
             /\ Len(handle) = Cardinality(hist.created)
             /\ StoredIds = hist.created
             /\ \A id \in hist.created : StoredTodo(id).id = id)
    /\ [][\A h \in Handlers :
             (hs[h].pc = "allocated" /\ hs'[h].pc = "stored") =>
                sled_get(handle, to_be_bytes(hs[h].id)) = None]_vars

\* A create_todo has stored its todo while the create_todo of the other
\* handler waits for the lock.
C13_Witness ==
    \E h \in Handlers, g \in Handlers :
       /\ h # g
       /\ hs[h].kind = "create_todo" /\ hs[h].pc = "stored"
       /\ hs[g].kind = "create_todo" /\ hs[g].pc = "wait"

\* C14: a stored todo's completed flag is false negated once per toggle that
\* has written it (updates of toggle_todo requests that run at the same time
\* are not lost), and a toggle writes only over the record it read: it never
\* puts back a record that a remove_todo took away in between.
C14_ToggleAtomic ==
    /\ [](\A id \in StoredIds : StoredTodo(id).completed = (id \in hist.flipped))
    /\ [][\A h \in Handlers :
             (hs[h].pc = "read" /\ hs'[h].pc = "stored") =>
                /\ sled_get(handle, to_be_bytes(hs[h].id)) # None
                /\ hs[h].local = Some(toggle_flip(StoredTodo(hs[h].id)))]_vars

\* A toggle_todo has read the todo it is about to write while the other
\* handler's toggle_todo of the same ID waits, the todo having been toggled
\* before or not.
C14_Witness ==
    \E h \in Handlers, g \in Handlers :
       /\ h # g
       /\ hs[h].kind = "toggle_todo" /\ hs[h].pc = "read"
       /\ hs[g].kind = "toggle_todo" /\ hs[g].pc = "wait"
       /\ hs[g].id = hs[h].id

\* C15: AppState::iter yields every stored todo, in strictly ascending order
\* of the numeric id, in every reachable state.
C15_IterAscending ==
    LET all == AppState_iter(handle)
    IN /\ all.tag = "Ok"
       /\ Len(all.val) = Len(handle)
       /\ \A i, j \in 1..Len(all.val) : i < j => all.val[i].id < all.val[j].id

\* The store holds todos whose IDs differ in the last but one byte of the key:
\* 255 and below, 256 and above.
C15_Witness ==
    /\ \E id \in StoredIds : id <= 255
    /\ \E id \in StoredIds : id >= 256

\* C16: the todo create_todo renders is the one its own add stored: it has
\* the ID that add allocated, the title of the request and completed = false;
\* and create_todo never fails to find it.
C16_CreatedIsLast ==
    \A h \in Handlers : hs[h].kind = "create_todo" =>
       /\ hs[h].pc # "unwinding"
       /\ hs[h].pc = "rendered" =>
             hs[h].resp = <<Todo(hs[h].id, hs[h].title, FALSE)>>

\* A create_todo has rendered its todo after a restart of the server, the
\* store holding an older todo as well.
C16_Witness ==
    \E h \in Handlers :
       /\ hs[h].kind = "create_todo" /\ hs[h].pc = "rendered"
       /\ restarts >= 1
       /\ Len(handle) >= 2

\* C17: Db::insert(k, _) and Db::remove(k) leave the entry of every other key
\* and the ID counter as they were; Db::next_id leaves the entries as they
\* were; get, iter and iter_prefix leave both as they were.
C17_Frame ==
    [][/\ ret'.op \in {"insert", "remove"} =>
             /\ \A k \in AllKeys \ {ret'.key} :
                   sled_get(tree', k) = sled_get(tree, k)
             /\ idgen' = idgen /\ idgen_persists' = idgen_persists
       /\ ret'.op = "next_id" => tree' = tree
       /\ ret'.op \in {"get", "iter", "iter_prefix"} =>
             /\ tree' = tree
             /\ idgen' = idgen /\ idgen_persists' = idgen_persists]_vars

\* An insert or a remove has run on a store that holds another key, after an
\* ID was drawn.
C17_Witness ==
    /\ ret.op \in {"insert", "remove"}
    /\ Present \ {ret.key} # {}
    /\ issued # <<>>

\* C18: the write of AppState::toggle(id) on a stored todo changes that
\* todo's completed flag to its negation and nothing else: the id and the
\* title stay, every other entry stays, no entry comes or goes; and in every
\* reachable store, toggle applied twice to a stored todo gives back the
\* store byte for byte.
C18_ToggleFlipsOnly ==
    /\ [](\A id \in StoredIds :
             LET once == AppState_toggle(handle, id)
             IN /\ once.tag = "Ok"
                /\ once.val # handle
                /\ AppState_toggle(once.val, id) = Ok(handle))
    /\ [][\A h \in Handlers :
             (hs[h].pc = "read" /\ hs'[h].pc = "stored") =>
                LET key == to_be_bytes(hs[h].id)
                    old == from_json(sled_get(handle, key)[1]).val
                    new == from_json(sled_get(handle', key)[1]).val
                IN /\ new = Todo(old.id, old.title, ~old.completed)
                   /\ Len(handle') = Len(handle)
                   /\ \A i \in 1..Len(handle) :
                         /\ handle'[i].key = handle[i].key
                         /\ handle[i].key # key => handle'[i] = handle[i]]_vars

\* A toggle has written its todo in a store that holds another todo too.
C18_Witness ==
    \E h \in Handlers :
       /\ hs[h].kind = "toggle_todo" /\ hs[h].pc = "stored"
       /\ Len(handle) >= 2

\* C19: AppState::toggle(id) for an ID that has no stored todo panics before
\* it writes: the handler unwinds, and until its guard is dropped the store
\* and the ID counter stay as they were; a toggle gets to its write only with
\* the record in the store; and a handler that has ended, by a panic too,
\* holds no guard, so that the lock is there for the requests after it.
C19_ToggleMissingFails ==
    /\ [](\A h \in Handlers :
             /\ hs[h].pc = "read" =>
                   sled_get(handle, to_be_bytes(hs[h].id)) # None
             /\ hs[h].pc = "idle" => h \notin Holders(lock))
    /\ [][\A h \in Handlers :
             /\ ( /\ hs[h].pc = "held" /\ hs[h].kind = "toggle_todo"
                  /\ sled_get(handle, to_be_bytes(hs[h].id)) = None
                  /\ hs'[h].pc \notin {"held", "idle"} ) =>
                   /\ hs'[h].pc = "unwinding"
                   /\ handle' = handle
                   /\ app_idgen' = app_idgen /\ app_persists' = app_persists
             /\ (hs[h].pc = "unwinding" /\ restarts' = restarts) =>
                   /\ handle' = handle
                   /\ app_idgen' = app_idgen /\ app_persists' = app_persists]_vars

\* After a toggle_todo for an ID with no todo has panicked and ended, another
\* request has got the lock and rendered its response.
C19_Witness ==
    /\ hist.panicked
    /\ \E h \in Handlers : hs[h].pc = "rendered"

=============================================================================
